---- MODULE Spec2Model ----
(***************************************************************************)
(* Model of utils/parser.py: the line tokenizer parse_log_file, the        *)
(* timestamp recovery try_parse_datetime and the event classifier          *)
(* extract_alarm_events.  Text is modelled by TLA+ strings, character by   *)
(* character (Len, SubSeq and \o act on strings in TLC); every compiled    *)
(* regular expression of the source is an operator that matches as the     *)
(* Python re engine does on that pattern.                                  *)
(***************************************************************************)
EXTENDS Integers, Sequences, FiniteSets, TLC

VARIABLES
    lines,    \* the argument of parse_log_file
    pc,       \* "parse", "extract" or "done": where the caller stands
    i,        \* index of the next line of the loop of parse_log_file
    entries,  \* the list parse_log_file builds and extract_alarm_events reads
    j,        \* index of the next row of the loop of extract_alarm_events
    events,   \* the list extract_alarm_events builds
    src       \* history: src[k] is the index of the row that gave events[k]

vars == <<lines, pc, i, entries, j, events, src>>

(***************************************************************************)
(* Python values: None is the empty tuple, a present value v is <<v>>.     *)
(***************************************************************************)
None == <<>>

Some(v) == <<v>>

\* a or b on optional values: a unless it is None
OrElse(a, b) == IF a # None THEN a ELSE b

(***************************************************************************)
(* Characters and character classes of the re module (ASCII part).         *)
(***************************************************************************)
Char(s, k) == SubSeq(s, k, k)

UpperLetters == "ABCDEFGHIJKLMNOPQRSTUVWXYZ"

LowerLetters == "abcdefghijklmnopqrstuvwxyz"

Digits == "0123456789"

CharsOf(s) == {Char(s, k) : k \in 1..Len(s)}

UpperSet == CharsOf(UpperLetters)

LowerSet == CharsOf(LowerLetters)

DigitSet == CharsOf(Digits)

\* str.lower() of the upper-case letters
LowerOf == [c \in UpperSet |->
               Char(LowerLetters, CHOOSE k \in 1..26 : Char(UpperLetters, k) = c)]

\* re.IGNORECASE compares characters after case folding
Lower(c) == IF c \in UpperSet THEN LowerOf[c] ELSE c

\* A character class is a set of characters, or (neg) its complement.
InClass(c, cls) == (c \in cls.chars) # cls.neg

\* \s
SpaceClass == [neg |-> FALSE, chars |-> {" ", "\t", "\n", "\r", "\f"}]

\* \S
NonSpaceClass == [neg |-> TRUE, chars |-> SpaceClass.chars]

\* \d
DigitClass == [neg |-> FALSE, chars |-> DigitSet]

\* [0-9A-Fa-f]
HexClass == [neg |-> FALSE, chars |-> DigitSet \cup CharsOf("ABCDEFabcdef")]

\* \w
WordClass == [neg |-> FALSE, chars |-> UpperSet \cup LowerSet \cup DigitSet \cup {"_"}]

\* [0-9A-Za-z\.\_:-]
VersionClass ==
    [neg |-> FALSE, chars |-> UpperSet \cup LowerSet \cup DigitSet \cup {".", "_", ":", "-"}]

\* [^/]
NotSlashClass == [neg |-> TRUE, chars |-> {"/"}]

\* [^.]  (the text str.split(".") cuts at)
NotDotClass == [neg |-> TRUE, chars |-> {"."}]

IsSpace(c) == InClass(c, SpaceClass)

IsDigit(c) == InClass(c, DigitClass)

IsWord(c) == InClass(c, WordClass)

\* the index after the longest run of characters of class cls that starts
\* at k (a greedy cls* ; the run is empty when the result is k)
RunEnd(cls, s, k) ==
    CHOOSE e \in k..(Len(s) + 1) :
        /\ e = Len(s) + 1 \/ ~InClass(Char(s, e), cls)
        /\ \A m \in k..(e - 1) : InClass(Char(s, m), cls)

\* the literal lit stands at index k of s, compared case-insensitively
LitAt(s, k, lit) ==
    /\ k >= 1
    /\ k + Len(lit) - 1 <= Len(s)
    /\ \A m \in 1..Len(lit) : Lower(Char(s, k + m - 1)) = Lower(Char(lit, m))

\* Python's  lit in s  (case-sensitive substring test)
Contains(s, lit) ==
    \E k \in 1..(Len(s) - Len(lit) + 1) : SubSeq(s, k, k + Len(lit) - 1) = lit

\* pattern.search(s) tries the pattern at every index from the left: the
\* least of the indices where it matches, 0 when there is none
Leftmost(hits) == IF hits = {} THEN 0 ELSE CHOOSE k \in hits : \A q \in hits : k <= q

\* all of s[a..b-1] are digits
AllDigits(s, a, b) == b - 1 <= Len(s) /\ \A m \in a..(b - 1) : IsDigit(Char(s, m))

\* (mutant of RStripNewline: at most one trailing newline is removed)
RStripOneNewline(s) ==
    IF Len(s) > 0 /\ Char(s, Len(s)) = "\n" THEN SubSeq(s, 1, Len(s) - 1) ELSE s

\* str.rstrip("\n")
RStripNewline(s) ==
    SubSeq(s, 1, CHOOSE e \in 0..Len(s) :
                     /\ e = 0 \/ Char(s, e) # "\n"
                     /\ \A m \in (e + 1)..Len(s) : Char(s, m) = "\n")

\* str.strip()
Strip(s) ==
    LET a == RunEnd(SpaceClass, s, 1)
        e == CHOOSE x \in 0..Len(s) :
                 /\ x = 0 \/ ~IsSpace(Char(s, x))
                 /\ \A m \in (x + 1)..Len(s) : IsSpace(Char(s, m))
    IN  SubSeq(s, a, e)

(***************************************************************************)
(* Dates and times.  A datetime is a record of its fields; strptime and    *)
(* dateutil's parse build one from digits and raise (modelled as None, the *)
(* callers catch every exception) when the fields are no calendar time.    *)
(***************************************************************************)
DigitVal(c) == CHOOSE d \in 0..9 : Char(Digits, d + 1) = c

RECURSIVE Num(_)
\* int(s) of a string of digits
Num(s) == IF Len(s) = 0 THEN 0
          ELSE 10 * Num(SubSeq(s, 1, Len(s) - 1)) + DigitVal(Char(s, Len(s)))

IsLeap(y) == (y % 4 = 0 /\ y % 100 # 0) \/ y % 400 = 0

DaysInMonth(y, m) ==
    IF m = 2 THEN (IF IsLeap(y) THEN 29 ELSE 28)
    ELSE IF m \in {4, 6, 9, 11} THEN 30 ELSE 31

\* datetime(y, mo, d, h, mi, s, us): the constructor raises ValueError outside
\* these ranges
datetime(y, mo, d, h, mi, s, us) ==
    IF /\ y >= 1
       /\ mo \in 1..12
       /\ d >= 1 /\ d <= DaysInMonth(y, mo)
       /\ h <= 23 /\ mi <= 59 /\ s <= 59
    THEN Some([year |-> y, month |-> mo, day |-> d,
               hour |-> h, minute |-> mi, second |-> s, microsecond |-> us])
    ELSE None

\* datetime.strptime(date + " " + time_part, "%Y%m%d %H:%M:%S") for an
\* 8-digit date and a time_part HH:MM:SS; None when it raises
strptime(date, time_part) ==
    datetime(Num(SubSeq(date, 1, 4)), Num(SubSeq(date, 5, 6)), Num(SubSeq(date, 7, 8)),
             Num(SubSeq(time_part, 1, 2)), Num(SubSeq(time_part, 4, 5)),
             Num(SubSeq(time_part, 7, 8)), 0)

\* dateutil: the fraction f of SS.f is int(f.ljust(6, "0")[:6]) microseconds
Microseconds(f) ==
    IF Len(f) >= 6 THEN Num(SubSeq(f, 1, 6))
    ELSE LET RECURSIVE Pad0(_)
             Pad0(x) == IF Len(x) >= 6 THEN x ELSE Pad0(x \o "0")
         IN  Num(Pad0(f))

\* dtparser.parse(ts) for ts = YYYY-MM-DD HH:MM:SS[.f]; None when it raises
dtparser_parse(ts) ==
    datetime(Num(SubSeq(ts, 1, 4)), Num(SubSeq(ts, 6, 7)), Num(SubSeq(ts, 9, 10)),
             Num(SubSeq(ts, 12, 13)), Num(SubSeq(ts, 15, 16)), Num(SubSeq(ts, 18, 19)),
             IF Len(ts) > 20 THEN Microseconds(SubSeq(ts, 21, Len(ts))) ELSE 0)

\* \d{2}:\d{2}:\d{2} at index k
ClockAt(s, k) ==
    /\ k + 7 <= Len(s)
    /\ AllDigits(s, k, k + 2) /\ Char(s, k + 2) = ":"
    /\ AllDigits(s, k + 3, k + 5) /\ Char(s, k + 5) = ":"
    /\ AllDigits(s, k + 6, k + 8)

\* (?:\.\d+)? at index k: the index after it
FracEnd(s, k) ==
    IF k + 1 <= Len(s) /\ Char(s, k) = "." /\ IsDigit(Char(s, k + 1))
    THEN RunEnd(DigitClass, s, k + 1)
    ELSE k

\* re_tsmc at index k: /\)(?P<date>\d{8})/(?P<time>\d{2}:\d{2}:\d{2}(?:\.\d+)?)
re_tsmc_at(s, k) ==
    IF /\ k >= 1 /\ k + 18 <= Len(s)
       /\ SubSeq(s, k, k + 1) = "/)"
       /\ AllDigits(s, k + 2, k + 10)
       /\ Char(s, k + 10) = "/"
       /\ ClockAt(s, k + 11)
    THEN Some([start |-> k,
               date |-> SubSeq(s, k + 2, k + 9),
               time |-> SubSeq(s, k + 11, FracEnd(s, k + 19) - 1)])
    ELSE None

\* re_tsmc.search(s)
re_tsmc(s) ==
    re_tsmc_at(s, Leftmost({k \in 1..Len(s) : re_tsmc_at(s, k) # None}))

\* \d{4}-\d{2}-\d{2} \d{2}:\d{2}:\d{2} at index k
IsoHeadAt(s, k) ==
    /\ k >= 1 /\ k + 18 <= Len(s)
    /\ AllDigits(s, k, k + 4) /\ Char(s, k + 4) = "-"
    /\ AllDigits(s, k + 5, k + 7) /\ Char(s, k + 7) = "-"
    /\ AllDigits(s, k + 8, k + 10) /\ Char(s, k + 10) = " "
    /\ ClockAt(s, k + 11)

\* re_iso at index k: (?P<ts>\d{4}-\d{2}-\d{2} \d{2}:\d{2}:\d{2}(?:\.\d+)?)
re_iso_at(s, k) ==
    IF IsoHeadAt(s, k)
    THEN Some([start |-> k, ts |-> SubSeq(s, k, FracEnd(s, k + 19) - 1)])
    ELSE None

\* re_iso.search(s)
re_iso(s) ==
    re_iso_at(s, Leftmost({k \in 1..Len(s) : re_iso_at(s, k) # None}))

\* time.split(".")[0]
BeforeDot(t) ==
    SubSeq(t, 1, RunEnd(NotDotClass, t, 1) - 1)

\* the TSMC branch: strptime of the match, None when there is no match or
\* strptime raises (except Exception: pass)
TsmcTime(m) ==
    IF m # None THEN strptime(m[1].date, BeforeDot(m[1].time)) ELSE None

\* the ISO branch: dtparser.parse of the match, None when there is no match
\* or the parse raises
IsoTime(m) == IF m # None THEN dtparser_parse(m[1].ts) ELSE None

\* (mutant of try_parse_datetime: the ISO form is tried before the TSMC form)
try_parse_datetime_iso_first(text) ==
    IF text = "" THEN None
    ELSE OrElse(IsoTime(re_iso(text)), TsmcTime(re_tsmc(text)))

\* try_parse_datetime: the TSMC form first, the ISO form second, else None
try_parse_datetime(text) ==
    IF text = "" THEN None
    ELSE OrElse(TsmcTime(re_tsmc(text)), IsoTime(re_iso(text)))

(***************************************************************************)
(* Pattern elements.  A position is an index into the string; 0 means the  *)
(* match has failed, and every element passes a failure on.                *)
(***************************************************************************)
\* the character at index k, or "" outside the string
At(s, k) == IF k >= 1 /\ k <= Len(s) THEN Char(s, k) ELSE ""

\* a literal at position p, compared case-insensitively: the position after it
Lit(s, p, lit) == IF p # 0 /\ LitAt(s, p, lit) THEN p + Len(lit) ELSE 0

\* one character of the set cs at position p
OneOf(s, p, cs) == IF p # 0 /\ At(s, p) \in cs THEN p + 1 ELSE 0

\* cls+ at position p, greedy.  Wherever the source uses it the next element
\* cannot start with a character of cls, so only the longest run can succeed.
Plus(cls, s, p) ==
    IF p = 0 THEN 0
    ELSE IF RunEnd(cls, s, p) > p THEN RunEnd(cls, s, p) ELSE 0

\* cls* at position p, greedy
Star(cls, s, p) == IF p = 0 THEN 0 ELSE RunEnd(cls, s, p)

\* the text between two positions of a successful match
Group(s, a, e) == SubSeq(s, a, e - 1)

(***************************************************************************)
(* The line tokenizer.                                                     *)
(***************************************************************************)
\* re_mcscript_full.match(line):
\*   ^(?P<ts>\d{4}-\d{2}-\d{2} \d{2}:\d{2}:\d{2})\s+(?P<level>[IEWF])\s+
\*    #(?P<thread>\d+)\s+(?P<comp>\S+)\s+(?P<msg>.*)$
\* "." excludes the newline and $ is the end of the (right-stripped) line.
re_mcscript_full(line) ==
    LET lv == Plus(SpaceClass, line, IF IsoHeadAt(line, 1) THEN 20 ELSE 0)
        th == Lit(line, Plus(SpaceClass, line, OneOf(line, lv, {"I", "E", "W", "F"})), "#")
        te == Plus(DigitClass, line, th)
        cp == Plus(SpaceClass, line, te)
        ce == Plus(NonSpaceClass, line, cp)
        ms == Plus(SpaceClass, line, ce)
    IN  IF ms # 0 /\ \A m \in ms..Len(line) : Char(line, m) # "\n"
        THEN Some([ts     |-> SubSeq(line, 1, 19),
                   level  |-> Char(line, lv),
                   thread |-> Group(line, th, te),
                   comp   |-> Group(line, cp, ce),
                   msg    |-> SubSeq(line, ms, Len(line))])
        ELSE None

\* //(?P<comp>[^/]+)/ anchored at index k
re_component_at(s, k) ==
    LET a == Lit(s, k, "//")
        e == Plus(NotSlashClass, s, a)
    IN  IF Lit(s, e, "/") # 0
        THEN Some([start |-> k, comp |-> Group(s, a, e)])
        ELSE None

\* re_component.search(s)
re_component(s) ==
    re_component_at(s, Leftmost({k \in 1..Len(s) : re_component_at(s, k) # None}))

\* (mutant of HeuristicLevel: the I markers are looked for before the W markers)
HeuristicLevelInfoFirst(line) ==
    IF Contains(line, "/I/") \/ Contains(line, " I/") \/ Contains(line, " I ")
    THEN Some("I")
    ELSE IF Contains(line, "/W/") \/ Contains(line, " W/") \/ Contains(line, " W ")
    THEN Some("W")
    ELSE IF Contains(line, "/F/") \/ Contains(line, " F/") \/ Contains(line, " F ")
    THEN Some("F")
    ELSE None

\* the heuristic Level of a line that is not in the structured format
HeuristicLevel(line) ==
    IF Contains(line, "/W/") \/ Contains(line, " W/") \/ Contains(line, " W ")
    THEN Some("W")
    ELSE IF Contains(line, "/I/") \/ Contains(line, " I/") \/ Contains(line, " I ")
    THEN Some("I")
    ELSE IF Contains(line, "/F/") \/ Contains(line, " F/") \/ Contains(line, " F ")
    THEN Some("F")
    ELSE None

\* comp = comp_match.group("comp") if comp_match else None
ComponentOf(comp_match) ==
    IF comp_match # None THEN Some(comp_match[1].comp) ELSE None

\* the entry of a line that re_mcscript_full does not match
FallbackEntry(line) ==
    [Timestamp |-> try_parse_datetime(line),
     Level     |-> HeuristicLevel(line),
     ThreadID  |-> None,
     Component |-> ComponentOf(re_component(line)),
     Message   |-> Strip(line),
     Raw       |-> line]

\* the entry of a line that re_mcscript_full matches with m; the timestamp is
\* dtparser.parse(ts), and try_parse_datetime(line) when that raises
StructuredEntry(line, m) ==
    [Timestamp |-> OrElse(dtparser_parse(m.ts), try_parse_datetime(line)),
     Level     |-> Some(m.level),
     ThreadID  |-> Some(m.thread),
     Component |-> Some(m.comp),
     Message   |-> Strip(m.msg),
     Raw       |-> line]

\* m = re_mcscript_full.match(line); if m: ... continue
EntryOf(line, m) ==
    IF m # None THEN StructuredEntry(line, m[1]) ELSE FallbackEntry(line)

\* one iteration of the loop of parse_log_file: the entry appended for a line
TokenizeLine(input) ==
    EntryOf(RStripNewline(input), re_mcscript_full(RStripNewline(input)))

(***************************************************************************)
(* The patterns of the event classifier, all compiled with re.IGNORECASE.  *)
(* name_at(s, k) is the pattern anchored at index k, None or Some(match);   *)
(* name(s) is name.search(s), the match at the leftmost index.             *)
(***************************************************************************)
\* the match of a pattern without groups that ends at position e
Matched(k, e) == IF e # 0 THEN Some([start |-> k]) ELSE None

\* the match of a pattern whose group 1 is s[a..e-1] and which ends at e
MatchedGroup(s, k, a, e) ==
    IF e # 0 THEN Some([start |-> k, group1 |-> Group(s, a, e)]) ELSE None

\* .* then lit from position p: some later occurrence of lit on the same line
DotStarLit(s, p, lit) ==
    IF /\ p # 0
       /\ \E q \in p..Len(s) :
             /\ LitAt(s, q, lit)
             /\ \A m \in p..(q - 1) : Char(s, m) # "\n"
    THEN Len(s) + 1
    ELSE 0

\* RunScript.*ThreatPreventionInstall
re_install_run_at(s, k) ==
    Matched(k, DotStarLit(s, Lit(s, k, "RunScript"), "ThreatPreventionInstall"))

\* re_install_run.search(s)
re_install_run(s) ==
    re_install_run_at(s, Leftmost({k \in 1..Len(s) : re_install_run_at(s, k) # None}))

\* \b at position p next to a word character on the other side
Boundary(s, p, k) == IF p # 0 /\ ~IsWord(At(s, k)) THEN p ELSE 0

\* \bSTART\b
re_start_marker_at(s, k) ==
    Matched(k, Boundary(s, Lit(s, Boundary(s, k, k - 1), "START"), k + 5))

\* re_start_marker.search(s)
re_start_marker(s) ==
    re_start_marker_at(s, Leftmost({k \in 1..Len(s) : re_start_marker_at(s, k) # None}))

\* Key imported successfully
re_key_imported_at(s, k) == Matched(k, Lit(s, k, "Key imported successfully"))

\* re_key_imported.search(s)
re_key_imported(s) ==
    re_key_imported_at(s, Leftmost({k \in 1..Len(s) : re_key_imported_at(s, k) # None}))

\* msgbus connectvity status\s*:\s*Connected
re_msgbus_connected_at(s, k) ==
    Matched(k, Lit(s, Star(SpaceClass, s,
                   Lit(s, Star(SpaceClass, s,
                       Lit(s, k, "msgbus connectvity status")), ":")), "Connected"))

\* re_msgbus_connected.search(s)
re_msgbus_connected(s) ==
    re_msgbus_connected_at(s, Leftmost({k \in 1..Len(s) : re_msgbus_connected_at(s, k) # None}))

\* Added file watcher
re_added_file_watcher_at(s, k) == Matched(k, Lit(s, k, "Added file watcher"))

\* re_added_file_watcher.search(s)
re_added_file_watcher(s) ==
    re_added_file_watcher_at(s, Leftmost({k \in 1..Len(s) : re_added_file_watcher_at(s, k) # None}))

\* lit\s+(cls+): a literal, white space, and group 1, a longest run of cls
LiteralThenGroup(cls, s, k, lit) ==
    MatchedGroup(s, k, Plus(SpaceClass, s, Lit(s, k, lit)),
                 Plus(cls, s, Plus(SpaceClass, s, Lit(s, k, lit))))

\* No of products to be installed\s+(\d+)
re_no_of_products_at(s, k) ==
    LiteralThenGroup(DigitClass, s, k, "No of products to be installed")

\* re_no_of_products.search(s)
re_no_of_products(s) ==
    re_no_of_products_at(s, Leftmost({k \in 1..Len(s) : re_no_of_products_at(s, k) # None}))

\* Got Build Version\s*:\s*([0-9A-Za-z\.\_:-]+)
VersionStart(s, k) ==
    Star(SpaceClass, s, Lit(s, Star(SpaceClass, s, Lit(s, k, "Got Build Version")), ":"))

re_version_info_at(s, k) ==
    MatchedGroup(s, k, VersionStart(s, k), Plus(VersionClass, s, VersionStart(s, k)))

\* re_version_info.search(s)
re_version_info(s) ==
    re_version_info_at(s, Leftmost({k \in 1..Len(s) : re_version_info_at(s, k) # None}))

\* getting spec file from policy successfully
re_spec_success_at(s, k) ==
    Matched(k, Lit(s, k, "getting spec file from policy successfully"))

\* re_spec_success.search(s)
re_spec_success(s) ==
    re_spec_success_at(s, Leftmost({k \in 1..Len(s) : re_spec_success_at(s, k) # None}))

\* [0-9A-Fa-f]{3,4} at position p before white space: the whole run of hex
\* digits, which must be 3 or 4 long
HexCode(s, p) ==
    IF p # 0 /\ RunEnd(HexClass, s, p) - p \in {3, 4} THEN RunEnd(HexClass, s, p) ELSE 0

\* Alarm\s+ : the position of the code
AlarmCode(s, k) == Plus(SpaceClass, s, Lit(s, k, "Alarm"))

\* \s+has\s+been\s+<word> from position p
HasBeen(s, p, word) ==
    Lit(s, Plus(SpaceClass, s,
        Lit(s, Plus(SpaceClass, s,
            Lit(s, Plus(SpaceClass, s, p), "has")), "been")), word)

\* Alarm\s+([0-9A-Fa-f]{3,4})\s+has\s+been\s+<word>
AlarmHasBeen(s, k, word) ==
    IF HasBeen(s, HexCode(s, AlarmCode(s, k)), word) # 0
    THEN Some([start  |-> k,
               group1 |-> Group(s, AlarmCode(s, k), HexCode(s, AlarmCode(s, k)))])
    ELSE None

\* Alarm\s+([0-9A-Fa-f]{3,4})\s+has\s+been\s+raised
re_alarm_raised_at(s, k) == AlarmHasBeen(s, k, "raised")

\* re_alarm_raised.search(s)
re_alarm_raised(s) ==
    re_alarm_raised_at(s, Leftmost({k \in 1..Len(s) : re_alarm_raised_at(s, k) # None}))

\* Alarm\s+([0-9A-Fa-f]{3,4})\s+has\s+been\s+terminated
re_alarm_terminated_at(s, k) == AlarmHasBeen(s, k, "terminated")

\* re_alarm_terminated.search(s)
re_alarm_terminated(s) ==
    re_alarm_terminated_at(s, Leftmost({k \in 1..Len(s) : re_alarm_terminated_at(s, k) # None}))

\* uncontrolled restart
re_uncontrolled_restart_at(s, k) == Matched(k, Lit(s, k, "uncontrolled restart"))

\* re_uncontrolled_restart.search(s)
re_uncontrolled_restart(s) ==
    re_uncontrolled_restart_at(s, Leftmost({k \in 1..Len(s) : re_uncontrolled_restart_at(s, k) # None}))

\* controlled restart
re_controlled_restart_at(s, k) == Matched(k, Lit(s, k, "controlled restart"))

\* re_controlled_restart.search(s)
re_controlled_restart(s) ==
    re_controlled_restart_at(s, Leftmost({k \in 1..Len(s) : re_controlled_restart_at(s, k) # None}))

\* Software error\. System error\s+(\d+)
re_software_err_at(s, k) ==
    LiteralThenGroup(DigitClass, s, k, "Software error. System error")

\* re_software_err.search(s)
re_software_err(s) ==
    re_software_err_at(s, Leftmost({k \in 1..Len(s) : re_software_err_at(s, k) # None}))

\* Could not find symbol for dereferencing\s+(\S+)
re_failed_symbol_at(s, k) ==
    LiteralThenGroup(NonSpaceClass, s, k, "Could not find symbol for dereferencing")

\* re_failed_symbol.search(s)
re_failed_symbol(s) ==
    re_failed_symbol_at(s, Leftmost({k \in 1..Len(s) : re_failed_symbol_at(s, k) # None}))

\* Failed to|Could not|Error trace
re_failed_generic_at(s, k) ==
    IF LitAt(s, k, "Failed to") \/ LitAt(s, k, "Could not") \/ LitAt(s, k, "Error trace")
    THEN Some([start |-> k])
    ELSE None

\* re_failed_generic.search(s)
re_failed_generic(s) ==
    re_failed_generic_at(s, Leftmost({k \in 1..Len(s) : re_failed_generic_at(s, k) # None}))

(***************************************************************************)
(* The event classifier: one iteration of the loop of extract_alarm_events *)
(***************************************************************************)
\* the longest message the rules look at
MaxMessage == 2000

\* (mutant of MsgOf: the message is not truncated)
MsgOfWhole(row) == row.Message

\* msg = (row.get("Message") or "")[:2000]
MsgOf(row) == SubSeq(row.Message, 1, IF Len(row.Message) > MaxMessage
                                     THEN MaxMessage ELSE Len(row.Message))

\* (mutant of TsOf: the time is always recovered from Raw)
TsOfRaw(row) == try_parse_datetime(row.Raw)

\* ts = row.get("Timestamp") or try_parse_datetime(row.get("Raw", ""))
TsOf(row) == OrElse(row.Timestamp, try_parse_datetime(row.Raw))

\* the dict appended to events; both dates are the same ts
Event(device, alarm, severity, status, ts, message) ==
    [DeviceName     |-> device,
     AlarmName      |-> alarm,
     Severity       |-> severity,
     Status         |-> status,
     RaiseDate      |-> ts,
     TerminatedDate |-> ts,
     Message        |-> message]

\* (mutant of StartMarker: the pattern alone decides)
StartMarkerAnyCase(msg) == re_start_marker(msg) # None

\* re_start_marker.search(msg) and "START" in msg
StartMarker(msg) == re_start_marker(msg) # None /\ Contains(msg, "START")

\* (mutant of ProductCountMessage: the colon is left out)
ProductCountMessageNoColon(mprod) == "No of products to be installed " \o mprod[1].group1

\* f"No of products to be installed: {mprod.group(1)}"
ProductCountMessage(mprod) == "No of products to be installed: " \o mprod[1].group1

\* f"Build Version: {mver.group(1)}"
BuildVersionMessage(mver) == "Build Version: " \o mver[1].group1

\* mprod = re_no_of_products.search(msg); if mprod: ...
ProductCountEvent(mprod, ts) ==
    IF mprod # None
    THEN Some(Event("Endpoint", "PRODUCT_COUNT", "Info", "Info", ts,
                    ProductCountMessage(mprod)))
    ELSE None

\* mver = re_version_info.search(msg); if mver: ...
BuildVersionEvent(mver, ts) ==
    IF mver # None
    THEN Some(Event("Endpoint", "BUILD_VERSION", "Info", "Info", ts,
                    BuildVersionMessage(mver)))
    ELSE None

\* "McScript useful info": the Endpoint events, in the order the code tests them
InfoEvent(msg, ts) ==
    IF re_install_run(msg) # None
    THEN Some(Event("Endpoint", "INSTALL_RUN", "Info", "Started", ts, msg))
    ELSE IF StartMarker(msg)
    THEN Some(Event("Endpoint", "SCRIPT_START", "Info", "Started", ts, msg))
    ELSE IF re_key_imported(msg) # None
    THEN Some(Event("Endpoint", "KEY_IMPORTED", "Info", "OK", ts, msg))
    ELSE IF re_msgbus_connected(msg) # None
    THEN Some(Event("Endpoint", "MSGBUS_CONNECTED", "Info", "OK", ts, msg))
    ELSE IF re_added_file_watcher(msg) # None
    THEN Some(Event("Endpoint", "FILE_WATCHER_ADDED", "Info", "OK", ts, msg))
    ELSE OrElse(ProductCountEvent(re_no_of_products(msg), ts),
         OrElse(BuildVersionEvent(re_version_info(msg), ts),
                IF re_spec_success(msg) # None
                THEN Some(Event("Endpoint", "SPECFILE_OK", "Info", "Info", ts, msg))
                ELSE None))

\* m = re_alarm_raised.search(msg); if m: ...  (and m2, terminated)
AlarmCodeEvent(m, status, msg, ts) ==
    IF m # None
    THEN Some(Event("TSMC", m[1].group1, "Unknown", status, ts, msg))
    ELSE None

\* "TSMC style alarms": alarm raised, then alarm terminated
AlarmEvent(msg, ts) ==
    OrElse(AlarmCodeEvent(re_alarm_raised(msg), "Raised", msg, ts),
           AlarmCodeEvent(re_alarm_terminated(msg), "Terminated", msg, ts))

\* (mutant of RestartEvent: controlled restart is tested first)
RestartEventControlledFirst(msg, ts) ==
    IF re_controlled_restart(msg) # None
    THEN Some(Event("TSMC", "CONTROLLED_RESTART", "Info", "Occurred", ts, msg))
    ELSE IF re_uncontrolled_restart(msg) # None
    THEN Some(Event("TSMC", "UNCONTROLLED_RESTART", "Critical", "Occurred", ts, msg))
    ELSE None

\* uncontrolled restart, then controlled restart
RestartEvent(msg, ts) ==
    IF re_uncontrolled_restart(msg) # None
    THEN Some(Event("TSMC", "UNCONTROLLED_RESTART", "Critical", "Occurred", ts, msg))
    ELSE IF re_controlled_restart(msg) # None
    THEN Some(Event("TSMC", "CONTROLLED_RESTART", "Info", "Occurred", ts, msg))
    ELSE None

\* m3 = re_software_err.search(msg); if m3: code = m3.group(1) ...
SoftwareErrEvent(m3, msg, ts) ==
    IF m3 # None
    THEN Some(Event("TSMC", "SYS_ERR_" \o m3[1].group1,
                    IF m3[1].group1 # "0" THEN "Critical" ELSE "Warning",
                    "Occurred", ts, msg))
    ELSE None

\* m_sym = re_failed_symbol.search(msg); if m_sym: symbol = m_sym.group(1) ...
FailedSymbolEvent(m_sym, msg, ts) ==
    IF m_sym # None
    THEN Some(Event("Endpoint", "INSTALL_FAIL_" \o m_sym[1].group1,
                    "Critical", "Failed", ts, msg))
    ELSE None

\* if re_failed_generic.search(msg): ...
GenericFailureEvent(row, msg, ts) ==
    IF re_failed_generic(msg) # None
    THEN Some(Event(IF Contains(row.Raw, "TSMC") THEN "TSMC" ELSE "Endpoint",
                    "FAILED_ACTION", "Warning", "Occurred", ts, msg))
    ELSE None

\* software error, then missing symbol, then generic failure
FailureEvent(row, msg, ts) ==
    OrElse(SoftwareErrEvent(re_software_err(msg), msg, ts),
    OrElse(FailedSymbolEvent(re_failed_symbol(msg), msg, ts),
           GenericFailureEvent(row, msg, ts)))

\* (mutant of Rules: the failure rules are tested before the others)
RulesFailureFirst(row, msg, ts) ==
    OrElse(FailureEvent(row, msg, ts),
    OrElse(InfoEvent(msg, ts),
    OrElse(AlarmEvent(msg, ts),
           RestartEvent(msg, ts))))

\* the tests of the loop body in source order: the first that succeeds
\* appends its event and continues with the next row; None when none does
Rules(row, msg, ts) ==
    OrElse(InfoEvent(msg, ts),
    OrElse(AlarmEvent(msg, ts),
    OrElse(RestartEvent(msg, ts),
           FailureEvent(row, msg, ts))))

\* the body of the loop over parsed_entries
ClassifyRow(row) == Rules(row, MsgOf(row), TsOf(row))

(***************************************************************************)
(* The two functions as functions of their argument: the loop of each,     *)
(* run over the whole list.  acc is the list built so far.                 *)
(***************************************************************************)
\* one iteration of the loop of parse_log_file: entries.append({...})
ParseStep(acc, line) == Append(acc, TokenizeLine(line))

RECURSIVE parse_log_file(_)
\* entries = []; for line in lines: ...; return entries
parse_log_file(ls) ==
    IF Len(ls) = 0 THEN <<>>
    ELSE ParseStep(parse_log_file(SubSeq(ls, 1, Len(ls) - 1)), ls[Len(ls)])

\* (mutant of ExtractStep: an alarm's "terminated" row closes the open
\* "raised" event of the same code in place of giving an event of its own)
ExtractStepCorrelating(acc, row) ==
    IF /\ ClassifyRow(row) # None
       /\ ClassifyRow(row)[1].Status = "Terminated"
       /\ \E k \in 1..Len(acc) :
             acc[k].Status = "Raised" /\ acc[k].AlarmName = ClassifyRow(row)[1].AlarmName
    THEN [k \in 1..Len(acc) |->
             IF acc[k].Status = "Raised" /\ acc[k].AlarmName = ClassifyRow(row)[1].AlarmName
             THEN [acc[k] EXCEPT !.TerminatedDate = ClassifyRow(row)[1].TerminatedDate]
             ELSE acc[k]]
    ELSE acc \o ClassifyRow(row)

\* one iteration of the loop of extract_alarm_events: at most one
\* events.append({...}), which reads nothing but row
ExtractStep(acc, row) == acc \o ClassifyRow(row)

RECURSIVE extract_alarm_events(_)
\* events = []; for row in parsed_entries: ...; return events
extract_alarm_events(rows) ==
    IF Len(rows) = 0 THEN <<>>
    ELSE ExtractStep(extract_alarm_events(SubSeq(rows, 1, Len(rows) - 1)), rows[Len(rows)])

(***************************************************************************)
(* The inputs.  A line is a few fragments of log text joined by single     *)
(* spaces; the fragments hold one trigger of every rule, the headers of    *)
(* both dialects and text on which the rules disagree.                     *)
(***************************************************************************)
MaxLines == 3

MaxFrags == 2

SeqsUpTo(S, n) == UNION {[1..k -> S] : k \in 0..n}

RECURSIVE Join(_)
Join(f) == IF Len(f) = 0 THEN ""
           ELSE IF Len(f) = 1 THEN f[1]
           ELSE f[1] \o " " \o Join(Tail(f))

Fragments ==
    { "2025-07-31 22:37:42    I    #4552    ScrptMain   ",
      "/)20250731/22:40:11.103000//TSMC/W/",
      "RunScript",
      "ThreatPreventionInstall.mcs",
      "START",
      "start",
      "RESTART",
      "Key imported successfully",
      "msgbus connectvity status : Connected",
      "Added file watcher",
      "No of products to be installed 12",
      "Got Build Version: 5.7.1",
      "getting spec file from policy successfully",
      "Alarm A1B2 has been raised",
      "alarm 0c7 has been terminated",
      "Uncontrolled Restart",
      "controlled restart",
      "Software error. System error 0",
      "Could not find symbol for dereferencing ptr",
      "Failed to open" }

LineCorpus == {Join(f) : f \in SeqsUpTo(Fragments, MaxFrags)}

\* the lines of the batches: both dialects, an empty line, trailing newlines
BatchCorpus ==
    { "",
      "idle\n\n",
      "2025-07-31 22:37:43    E    #4552    ScrptMain    Failed to open /)20250731/22:40:11/\n",
      "/)20250731/22:40:11.103000//TSMC/W/ Alarm A1B2 has been raised",
      "/)20250731/22:41:00//TSMC/I/ Alarm A1B2 has been terminated\n",
      "No of products to be installed 7" }

(***************************************************************************)
(* The caller (app.py): parsed = parse_log_file(lines), then               *)
(* evts = extract_alarm_events(parsed).  Each action is one iteration of a *)
(* loop, or the return that ends it.                                       *)
(***************************************************************************)
Start(batch) ==
    /\ lines = batch
    /\ pc = "parse"
    /\ i = 1
    /\ entries = <<>>
    /\ j = 1
    /\ events = <<>>
    /\ src = <<>>

Init == \E batch \in SeqsUpTo(BatchCorpus, MaxLines) : Start(batch)

InitLine == \E l \in LineCorpus : Start(<<l>>)

\* for line in lines: ... entries.append({...})
ParseLine ==
    /\ pc = "parse"
    /\ i <= Len(lines)
    /\ entries' = Append(entries, TokenizeLine(lines[i]))
    /\ i' = i + 1
    /\ UNCHANGED <<lines, pc, j, events, src>>

\* return entries
ParseReturn ==
    /\ pc = "parse"
    /\ i > Len(lines)
    /\ pc' = "extract"
    /\ UNCHANGED <<lines, i, entries, j, events, src>>

\* (mutant of Emit: the event is inserted at the front of the list)
EmitFront(e) ==
    /\ events' = e \o events
    /\ src' = IF e # None THEN <<j>> \o src ELSE src

\* events.append({...}) when a rule matched: e is None or Some(event)
Emit(e) ==
    /\ events' = events \o e
    /\ src' = IF e # None THEN Append(src, j) ELSE src

\* for row in parsed_entries: ... events.append({...}); continue
ExtractRow ==
    /\ pc = "extract"
    /\ j <= Len(entries)
    /\ Emit(ClassifyRow(entries[j]))
    /\ j' = j + 1
    /\ UNCHANGED <<lines, pc, i, entries>>

\* return events
ExtractReturn ==
    /\ pc = "extract"
    /\ j > Len(entries)
    /\ pc' = "done"
    /\ UNCHANGED <<lines, i, entries, j, events, src>>

Next == ParseLine \/ ParseReturn \/ ExtractRow \/ ExtractReturn

Spec == Init /\ [][Next]_vars

SpecLine == InitLine /\ [][Next]_vars

(***************************************************************************)
(* Lines for timestamp recovery: both forms, each with a real and with an  *)
(* impossible date or time, in every order.                                *)
(***************************************************************************)
MaxTsFrags == 3

TsFragments ==
    { "/)20250731/22:40:11.103000/",
      "/)20250230/10:00:00/",
      "/)20250731/25:61:61",
      "2025-07-31 22:37:42.5",
      "2025-13-01 10:00:00",
      "Alarm A1B2 has been raised",
      "idle" }

TsCorpus == {Join(f) : f \in SeqsUpTo(TsFragments, MaxTsFrags)}

InitTs == \E l \in TsCorpus : Start(<<l>>)

SpecTs == InitTs /\ [][Next]_vars

(***************************************************************************)
(* Lines around the truncation boundary: a trigger that ends MaxShift or   *)
(* fewer characters after character 2000, ends at or before it, or starts  *)
(* after it, behind a filler, with or without a second trigger in front.   *)
(***************************************************************************)
MaxShift == 2

RECURSIVE Pad(_)
\* a filler of n characters that no pattern matches
Pad(n) == IF n <= 0 THEN ""
          ELSE IF n % 2 = 0 THEN Pad(n \div 2) \o Pad(n \div 2)
          ELSE "." \o Pad(n - 1)

TruncHeads == {"", "Failed to open "}

TruncTriggers ==
    { "START",
      "No of products to be installed 12",
      "Got Build Version: 5.7.1",
      "Alarm A1B2 has been raised",
      "Uncontrolled Restart",
      "Could not find symbol for dereferencing ptr" }

\* head, filler, and trigger t ending at character MaxMessage + d
TruncLine(h, t, d) == h \o Pad(MaxMessage + d - Len(h) - Len(t)) \o t

TruncCorpus ==
    {"", Pad(MaxMessage), Pad(MaxMessage + 1)}
    \cup {TruncLine(h, t, d) : h \in TruncHeads, t \in TruncTriggers, d \in -1..MaxShift}
    \cup {TruncLine(h, t, Len(t)) : h \in TruncHeads, t \in TruncTriggers}

InitTrunc == \E l \in TruncCorpus : Start(<<l>>)

SpecTrunc == InitTrunc /\ [][Next]_vars

(***************************************************************************)
(* Batches to cut in two: an alarm raised and terminated, in both orders   *)
(* and repeated, around a structured line and an empty one.                *)
(***************************************************************************)
SplitCorpus ==
    { "",
      "2025-07-31 22:37:43    E    #4552    ScrptMain    Failed to open\n",
      "/)20250731/22:40:11.103000//TSMC/W/ Alarm A1B2 has been raised",
      "/)20250731/22:41:00//TSMC/I/ Alarm A1B2 has been terminated\n" }

InitSplit == \E batch \in SeqsUpTo(SplitCorpus, MaxLines) : Start(batch)

SpecSplit == InitSplit /\ [][Next]_vars

(***************************************************************************)
(* Lines for the level heuristics: the nine markers, look-alikes that are  *)
(* no marker, and the structured header, set one after the other in every  *)
(* order.                                                                  *)
(***************************************************************************)
MaxLevelFrags == 2

RECURSIVE Concat(_)
Concat(f) == IF Len(f) = 0 THEN "" ELSE f[1] \o Concat(Tail(f))

LevelFragments ==
    { "/W/", " W/", " W ", "/I/", " I/", " I ", "/F/", " F/", " F ",
      "/W ", " w ", "x", "\n",
      "2025-07-31 22:37:42    I    #4552    ScrptMain   " }

LevelCorpus == {Concat(f) : f \in SeqsUpTo(LevelFragments, MaxLevelFrags)}

InitLevel == \E l \in LevelCorpus : Start(<<l>>)

SpecLevel == InitLevel /\ [][Next]_vars

(***************************************************************************)
(* The rule table of the specification, stated on the text the rules see.  *)
(***************************************************************************)
\* the first n characters of s
Prefix(s, n) == SubSeq(s, 1, IF Len(s) > n THEN n ELSE Len(s))

\* the text of a row that the rules are matched against
Seen(row) == Prefix(row.Message, MaxMessage)

\* text holds lit in some letter case
OccursLit(text, lit) == \E k \in 1..Len(text) : LitAt(text, k, lit)

\* the trigger of rule r (priority r of the table) matches text; rule 2 is
\* taken as the classifier tests it: the word START in any letter case and,
\* besides, the upper-case letters START
Trigger(r, text) ==
    CASE r = 1  -> re_install_run(text) # None
      [] r = 2  -> re_start_marker(text) # None /\ Contains(text, "START")
      [] r = 3  -> OccursLit(text, "Key imported successfully")
      [] r = 4  -> re_msgbus_connected(text) # None
      [] r = 5  -> OccursLit(text, "Added file watcher")
      [] r = 6  -> re_no_of_products(text) # None
      [] r = 7  -> re_version_info(text) # None
      [] r = 8  -> OccursLit(text, "getting spec file from policy successfully")
      [] r = 9  -> re_alarm_raised(text) # None
      [] r = 10 -> re_alarm_terminated(text) # None
      [] r = 11 -> OccursLit(text, "uncontrolled restart")
      [] r = 12 -> OccursLit(text, "controlled restart")
      [] r = 13 -> re_software_err(text) # None
      [] r = 14 -> re_failed_symbol(text) # None
      [] r = 15 -> OccursLit(text, "Failed to") \/ OccursLit(text, "Could not")
                      \/ OccursLit(text, "Error trace")

RECURSIVE FirstRuleFrom(_, _)
\* the lowest-numbered rule from r on whose trigger matches text, 0 for none
FirstRuleFrom(r, text) ==
    IF r > 15 THEN 0
    ELSE IF Trigger(r, text) THEN r
    ELSE FirstRuleFrom(r + 1, text)

\* the lowest-numbered rule of the table whose trigger matches text, 0 when
\* no rule matches
Winner(text) == FirstRuleFrom(1, text)

\* device_name, alarm_name, severity and status of rule r's row of the table
RuleFields(r, text, raw) ==
    CASE r = 1  -> <<"Endpoint", "INSTALL_RUN", "Info", "Started">>
      [] r = 2  -> <<"Endpoint", "SCRIPT_START", "Info", "Started">>
      [] r = 3  -> <<"Endpoint", "KEY_IMPORTED", "Info", "OK">>
      [] r = 4  -> <<"Endpoint", "MSGBUS_CONNECTED", "Info", "OK">>
      [] r = 5  -> <<"Endpoint", "FILE_WATCHER_ADDED", "Info", "OK">>
      [] r = 6  -> <<"Endpoint", "PRODUCT_COUNT", "Info", "Info">>
      [] r = 7  -> <<"Endpoint", "BUILD_VERSION", "Info", "Info">>
      [] r = 8  -> <<"Endpoint", "SPECFILE_OK", "Info", "Info">>
      [] r = 9  -> <<"TSMC", re_alarm_raised(text)[1].group1, "Unknown", "Raised">>
      [] r = 10 -> <<"TSMC", re_alarm_terminated(text)[1].group1, "Unknown", "Terminated">>
      [] r = 11 -> <<"TSMC", "UNCONTROLLED_RESTART", "Critical", "Occurred">>
      [] r = 12 -> <<"TSMC", "CONTROLLED_RESTART", "Info", "Occurred">>
      [] r = 13 -> <<"TSMC", "SYS_ERR_" \o re_software_err(text)[1].group1,
                     IF re_software_err(text)[1].group1 = "0" THEN "Warning" ELSE "Critical",
                     "Occurred">>
      [] r = 14 -> <<"Endpoint", "INSTALL_FAIL_" \o re_failed_symbol(text)[1].group1,
                     "Critical", "Failed">>
      [] r = 15 -> <<IF Contains(raw, "TSMC") THEN "TSMC" ELSE "Endpoint",
                     "FAILED_ACTION", "Warning", "Occurred">>

\* the four categorical fields of an event
FieldsOf(ev) == <<ev.DeviceName, ev.AlarmName, ev.Severity, ev.Status>>

\* the rows the classifier has already been through
Processed == IF pc = "parse" THEN {} ELSE 1..(j - 1)

\* the row that gave event k
RowOf(k) == entries[src[k]]

\* the events that row r gave
EventsOf(r) == {k \in 1..Len(src) : src[k] = r}

\* ev has the fields of rule w's row of the table, w being a rule
IsEventOfRule(ev, w, text, raw) ==
    /\ w # 0
    /\ FieldsOf(ev) = RuleFields(w, text, raw)

(***************************************************************************)
(* The claims.                                                             *)
(***************************************************************************)
\* C1: every event carries the device, alarm name, severity and status of the
\* lowest-numbered rule whose trigger matches the truncated message of its
\* row; when rules 9 and 15 both match and 9 is the lowest, the event is
\* TSMC / the hex code / Unknown / Raised.
FirstMatchWins ==
    \A k \in 1..Len(events) :
      LET w == Winner(Seen(RowOf(k)))
      IN
        /\ IsEventOfRule(events[k], w, Seen(RowOf(k)), RowOf(k).Raw)
        /\ (w = 9 /\ Trigger(15, Seen(RowOf(k))))
           => /\ events[k].DeviceName = "TSMC"
              /\ events[k].Severity = "Unknown"
              /\ events[k].Status = "Raised"
              /\ Len(events[k].AlarmName) \in {3, 4}
              /\ \A m \in 1..Len(events[k].AlarmName) : InClass(Char(events[k].AlarmName, m), HexClass)
              /\ Contains(Seen(RowOf(k)), events[k].AlarmName)

\* C1 witness: an event was emitted for a message that matches rule 9 and
\* rule 15 and no rule before 9.
RaisedAndGenericSeen ==
    \E k \in 1..Len(events) :
        /\ Trigger(9, Seen(RowOf(k)))
        /\ Trigger(15, Seen(RowOf(k)))
        /\ Winner(Seen(RowOf(k))) = 9

\* C2: the tokenizer has appended one record per line read so far, N records
\* for N lines when it returns (none for none); record k belongs to line k,
\* and its Raw is that line without its trailing newline characters: a prefix
\* of the line, followed in the line by newlines only, not ending in one.
OneRecordPerLine ==
    /\ Len(entries) = (IF pc = "parse" THEN i - 1 ELSE Len(lines))
    /\ \A k \in 1..Len(entries) :
          /\ Len(entries[k].Raw) <= Len(lines[k])
          /\ entries[k].Raw = Prefix(lines[k], Len(entries[k].Raw))
          /\ \A m \in (Len(entries[k].Raw) + 1)..Len(lines[k]) : Char(lines[k], m) = "\n"
          /\ At(entries[k].Raw, Len(entries[k].Raw)) # "\n"

\* C2 witness: three lines have been tokenized, among them an empty line and
\* a line that ends in two newlines.
EmptyAndNewlineLinesTokenized ==
    /\ pc = "done"
    /\ Len(lines) = 3
    /\ \E a, b \in 1..3 :
          /\ lines[a] = "" /\ entries[a].Raw = ""
          /\ lines[b] = "idle\n\n" /\ entries[b].Raw = "idle"

\* C3: the classifier emits one event for a row exactly when some rule
\* matches the row's message and none otherwise; the events are in the order
\* of their rows, each the classification of its own row; no rows, no events.
OneEventPerMatchingRow ==
    /\ Len(src) = Len(events)
    /\ \A k \in 1..Len(src) : src[k] \in Processed
    /\ \A a, b \in 1..Len(src) : a < b => src[a] < src[b]
    /\ \A r \in Processed :
          Cardinality(EventsOf(r)) = (IF Winner(Seen(entries[r])) # 0 THEN 1 ELSE 0)
    /\ \A k \in 1..Len(events) :
          /\ IsEventOfRule(events[k], Winner(Seen(RowOf(k))), Seen(RowOf(k)), RowOf(k).Raw)
          /\ events[k].RaiseDate = RowOf(k).Timestamp
    /\ (pc = "done" /\ entries = <<>>) => events = <<>>

\* C3 witness: three rows gave two events, the row in the middle none.
MiddleRowSkipped ==
    /\ pc = "done"
    /\ Len(entries) = 3
    /\ src = <<1, 3>>
    /\ Winner(Seen(entries[2])) = 0
    /\ events[1].AlarmName # events[2].AlarmName

\* C4 as the specification states it: the event's message differs from the
\* row's truncated message exactly when the winning rule is 6, 7, 8, 13 or 14.
MessageRewrittenByFiveRules ==
    \A k \in 1..Len(events) :
        (Winner(Seen(RowOf(k))) \in {6, 7, 8, 13, 14})
            <=> (events[k].Message # Seen(RowOf(k)))

\* C4, amended: the event's message is a synthesized string exactly when the
\* winning rule is 6 or 7: "No of products to be installed: " and the count
\* for rule 6, "Build Version: " and the version for rule 7; for every other
\* winning rule, 8, 13 and 14 included, it is the row's truncated message.
MessageRewrittenByRules6And7 ==
    \A k \in 1..Len(events) :
      LET w == Winner(Seen(RowOf(k)))
      IN
        /\ w = 6 =>
              /\ events[k].Message =
                     "No of products to be installed: "
                         \o re_no_of_products(Seen(RowOf(k)))[1].group1
              /\ events[k].Message # Seen(RowOf(k))
        /\ w = 7 =>
              /\ events[k].Message =
                     "Build Version: " \o re_version_info(Seen(RowOf(k)))[1].group1
              /\ events[k].Message # Seen(RowOf(k))
        /\ w \notin {6, 7} => events[k].Message = Seen(RowOf(k))

\* C4 witness: a SYS_ERR event (rule 13) carries the row's message unchanged.
SoftwareErrorPassedThrough ==
    \E k \in 1..Len(events) :
        /\ Winner(Seen(RowOf(k))) = 13
        /\ events[k].AlarmName = "SYS_ERR_0"
        /\ events[k].Message = Seen(RowOf(k))

\* text holds START as a whole word, in some letter case
WholeWordStart(text) ==
    \E k \in 1..Len(text) :
        /\ LitAt(text, k, "START")
        /\ ~IsWord(At(text, k - 1))
        /\ ~IsWord(At(text, k + 5))

\* text holds START as a whole word in upper case
WholeWordUpperStart(text) ==
    \E k \in 1..Len(text) :
        /\ k + 4 <= Len(text) /\ SubSeq(text, k, k + 4) = "START"
        /\ ~IsWord(At(text, k - 1))
        /\ ~IsWord(At(text, k + 5))

\* row r gave the SCRIPT_START event
ScriptStartFrom(r) ==
    \E k \in EventsOf(r) :
        FieldsOf(events[k]) = <<"Endpoint", "SCRIPT_START", "Info", "Started">>

\* C5 as the specification states it: every message that does not match rule
\* 1 and holds START as a whole word in any letter case yields SCRIPT_START.
StartInAnyCaseYieldsScriptStart ==
    \A r \in Processed :
        (~Trigger(1, Seen(entries[r])) /\ WholeWordStart(Seen(entries[r])))
            => ScriptStartFrom(r)

\* C5, amended: a message that does not match rule 1 yields SCRIPT_START
\* exactly when it holds START as a whole word in any letter case and also
\* holds the upper-case letters START somewhere; so a whole word START in
\* upper case always does, and start or Start alone does not.
StartNeedsUpperCaseLetters ==
    \A r \in Processed :
        ~Trigger(1, Seen(entries[r])) =>
            /\ ScriptStartFrom(r)
                  <=> (WholeWordStart(Seen(entries[r]))
                          /\ Contains(Seen(entries[r]), "START"))
            /\ WholeWordUpperStart(Seen(entries[r])) => ScriptStartFrom(r)

\* C5 witness: SCRIPT_START was emitted for a message whose only whole word
\* START is in lower case, the upper-case letters being part of another word.
LowerCaseStartWithUpperCaseElsewhere ==
    \E r \in Processed :
        /\ ScriptStartFrom(r)
        /\ WholeWordStart(Seen(entries[r]))
        /\ ~WholeWordUpperStart(Seen(entries[r]))

\* C6: every event's Raise Date and Terminated Date are equal and are the
\* Timestamp of the record it came from, absent when that is absent (a
\* record's Timestamp is absent only when no time can be recovered from its
\* Raw either, so the classifier's second attempt on Raw finds nothing new).
DatesAreRecordTimestamp ==
    /\ \A k \in 1..Len(events) :
          /\ events[k].RaiseDate = events[k].TerminatedDate
          /\ events[k].RaiseDate = RowOf(k).Timestamp
          /\ RowOf(k).Timestamp = None => events[k].TerminatedDate = None
    /\ \A r \in 1..Len(entries) :
          entries[r].Timestamp = None => try_parse_datetime(entries[r].Raw) = None

\* C6 witness: one event has no dates because its record has no timestamp,
\* another has the timestamp of its record, whose Raw holds a second, later
\* time stamp.
DatedAndUndatedEvents ==
    \E a, b \in 1..Len(events) :
        /\ RowOf(a).Timestamp = None
        /\ events[a].RaiseDate = None
        /\ RowOf(b).Timestamp # None
        /\ events[b].TerminatedDate = RowOf(b).Timestamp
        /\ try_parse_datetime(RowOf(b).Raw) # RowOf(b).Timestamp

\* C7: tokenizing the Raw of a record as a line of its own gives the record
\* again: the same Timestamp, Level, ThreadID, Component, Message and Raw.
RetokenizingRawIsIdentity ==
    \A k \in 1..Len(entries) :
        /\ DOMAIN entries[k] =
               {"Timestamp", "Level", "ThreadID", "Component", "Message", "Raw"}
        /\ TokenizeLine(entries[k].Raw) = entries[k]

\* C7 witness: the records of a structured line and of a free-form line, both
\* of which lost trailing newlines, have been produced.
BothDialectsRetokenized ==
    \E a, b \in 1..Len(entries) :
        /\ entries[a].ThreadID # None
        /\ entries[a].Raw # lines[a]
        /\ entries[b].ThreadID = None
        /\ entries[b].Raw # lines[b]
        /\ TokenizeLine(entries[a].Raw).Message = entries[a].Message
        /\ TokenizeLine(entries[b].Raw).Message = entries[b].Message

\* C10: a message that holds "uncontrolled restart" in any letter case and
\* matches none of rules 1 to 10 yields UNCONTROLLED_RESTART, Critical, and
\* not CONTROLLED_RESTART; CONTROLLED_RESTART, Info, comes only from a
\* message that holds "controlled restart" and not "uncontrolled restart".
UncontrolledBeforeControlled ==
    /\ \A r \in Processed :
          (OccursLit(Seen(entries[r]), "uncontrolled restart")
              /\ Winner(Seen(entries[r])) \notin 1..10)
          => /\ EventsOf(r) # {}
             /\ \A k \in EventsOf(r) :
                   /\ events[k].AlarmName = "UNCONTROLLED_RESTART"
                   /\ events[k].Severity = "Critical"
    /\ \A k \in 1..Len(events) :
          events[k].AlarmName = "CONTROLLED_RESTART"
          => /\ events[k].Severity = "Info"
             /\ OccursLit(Seen(RowOf(k)), "controlled restart")
             /\ ~OccursLit(Seen(RowOf(k)), "uncontrolled restart")

\* C10 witness: UNCONTROLLED_RESTART was emitted for a message that holds
\* "uncontrolled restart" and, apart from it, "controlled restart" once more.
UncontrolledRestartSeen ==
    \E k \in 1..Len(events) :
        /\ events[k].AlarmName = "UNCONTROLLED_RESTART"
        /\ events[k].Severity = "Critical"
        /\ Winner(Seen(RowOf(k))) = 11
        /\ \E a, b \in 1..Len(Seen(RowOf(k))) :
              /\ LitAt(Seen(RowOf(k)), a, "uncontrolled restart")
              /\ LitAt(Seen(RowOf(k)), b, "controlled restart")
              /\ b # a + 2

\* year, month, day, hour, minute and second of a recovered time
ClockOf(ts) == <<ts.year, ts.month, ts.day, ts.hour, ts.minute, ts.second>>

\* the digits of the first slash-delimited stamp /)YYYYMMDD/HH:MM:SS of text
SlashDigits(text) ==
    <<Num(SubSeq(re_tsmc(text)[1].date, 1, 4)), Num(SubSeq(re_tsmc(text)[1].date, 5, 6)),
      Num(SubSeq(re_tsmc(text)[1].date, 7, 8)), Num(SubSeq(re_tsmc(text)[1].time, 1, 2)),
      Num(SubSeq(re_tsmc(text)[1].time, 4, 5)), Num(SubSeq(re_tsmc(text)[1].time, 7, 8))>>

\* the digits of the first ISO stamp YYYY-MM-DD HH:MM:SS of text
IsoDigits(text) ==
    <<Num(SubSeq(re_iso(text)[1].ts, 1, 4)), Num(SubSeq(re_iso(text)[1].ts, 6, 7)),
      Num(SubSeq(re_iso(text)[1].ts, 9, 10)), Num(SubSeq(re_iso(text)[1].ts, 12, 13)),
      Num(SubSeq(re_iso(text)[1].ts, 15, 16)), Num(SubSeq(re_iso(text)[1].ts, 18, 19))>>

\* the six numbers are a date of the calendar and a time of the day
IsDateAndTime(c) ==
    /\ c[1] >= 1
    /\ c[2] \in 1..12
    /\ c[3] \in 1..DaysInMonth(c[1], c[2])
    /\ c[4] \in 0..23 /\ c[5] \in 0..59 /\ c[6] \in 0..59

\* text has a slash-delimited stamp and the first one is a date and time
SlashParses(text) == re_tsmc(text) # None /\ IsDateAndTime(SlashDigits(text))

\* text has an ISO stamp and the first one is a date and time
IsoParses(text) == re_iso(text) # None /\ IsDateAndTime(IsoDigits(text))

\* C8: the time recovered from a line is that of its slash-delimited stamp,
\* without the fraction of a second, when that stamp is a date and time;
\* otherwise that of its ISO stamp when that one is; otherwise it is absent.
SlashFormThenIsoForm ==
    \A k \in 1..Len(entries) :
        IF SlashParses(entries[k].Raw)
        THEN /\ entries[k].Timestamp # None
             /\ ClockOf(entries[k].Timestamp[1]) = SlashDigits(entries[k].Raw)
             /\ entries[k].Timestamp[1].microsecond = 0
        ELSE IF IsoParses(entries[k].Raw)
        THEN /\ entries[k].Timestamp # None
             /\ ClockOf(entries[k].Timestamp[1]) = IsoDigits(entries[k].Raw)
        ELSE entries[k].Timestamp = None

\* C8 witness: a line with both forms, each a date and time, the ISO form
\* first in the line, has the time of its slash-delimited stamp.
SlashFormWonOverEarlierIsoForm ==
    \E k \in 1..Len(entries) :
        /\ SlashParses(entries[k].Raw)
        /\ IsoParses(entries[k].Raw)
        /\ re_iso(entries[k].Raw)[1].start < re_tsmc(entries[k].Raw)[1].start
        /\ SlashDigits(entries[k].Raw) # IsoDigits(entries[k].Raw)
        /\ ClockOf(entries[k].Timestamp[1]) = SlashDigits(entries[k].Raw)

\* row with its message cut to the first MaxMessage characters
CutRow(row) == [row EXCEPT !.Message = Prefix(row.Message, MaxMessage)]

\* C9: a row gives an event exactly when a rule matches the first 2000
\* characters of its message, and then the event that the row with the rest
\* of the message removed gives; an event's message that is the row's message
\* passed through has at most 2000 characters; rows with an empty message,
\* with one of 2000 characters and with longer ones are all classified.
OnlyFirst2000CharactersSeen ==
    /\ \A r \in Processed :
          /\ Winner(Prefix(entries[r].Message, MaxMessage)) = 0 => EventsOf(r) = {}
          /\ Winner(Prefix(entries[r].Message, MaxMessage)) # 0 =>
                /\ EventsOf(r) # {}
                /\ \A k \in EventsOf(r) : <<events[k]>> = ClassifyRow(CutRow(entries[r]))
    /\ \A k \in 1..Len(events) :
          /\ IsEventOfRule(events[k], Winner(Prefix(RowOf(k).Message, MaxMessage)),
                           Prefix(RowOf(k).Message, MaxMessage), RowOf(k).Raw)
          /\ Winner(Prefix(RowOf(k).Message, MaxMessage)) \notin {6, 7} =>
                /\ Len(events[k].Message) <= MaxMessage
                /\ events[k].Message = Prefix(RowOf(k).Message, MaxMessage)
    /\ pc = "done" => j = Len(entries) + 1

\* C9 witness: a row whose message is longer than 2000 characters and has a
\* trigger that reaches across character 2000 has been classified and gave
\* no event.
TriggerAcrossBoundaryIgnored ==
    \E r \in Processed :
        /\ Len(entries[r].Message) > MaxMessage
        /\ Winner(entries[r].Message) # 0
        /\ \E a \in 1..MaxMessage :
              re_alarm_raised_at(entries[r].Message, a) # None
        /\ EventsOf(r) = {}

\* the first n elements of a list, and the rest
Take(s, n) == SubSeq(s, 1, n)

Drop(s, n) == SubSeq(s, n + 1, Len(s))

\* events a and b are an alarm's "raised" event and a later "terminated"
\* event of the same code
RaisedThenTerminated(a, b) ==
    /\ a < b
    /\ events[a].Status = "Raised"
    /\ events[b].Status = "Terminated"
    /\ events[a].AlarmName = events[b].AlarmName

\* C11: the records of a batch are the records of its first n lines followed
\* by the records of the rest, and its events the events of its first n
\* records followed by the events of the rest, wherever the batch is cut; the
\* lists the two loops built are these; a "terminated" row after a "raised"
\* row of the same alarm gives an event of its own, and each of the two
\* events is what its row gives alone.
BatchesConcatenate ==
    pc = "done" =>
        /\ entries = parse_log_file(lines)
        /\ events = extract_alarm_events(entries)
        /\ \A n \in 0..Len(lines) :
              parse_log_file(lines)
                  = parse_log_file(Take(lines, n)) \o parse_log_file(Drop(lines, n))
        /\ \A n \in 0..Len(entries) :
              extract_alarm_events(entries)
                  = extract_alarm_events(Take(entries, n))
                        \o extract_alarm_events(Drop(entries, n))
        /\ \A a, b \in 1..Len(events) :
              RaisedThenTerminated(a, b) =>
                  /\ <<events[a]>> = extract_alarm_events(<<RowOf(a)>>)
                  /\ <<events[b]>> = extract_alarm_events(<<RowOf(b)>>)
                  /\ events[a].TerminatedDate = events[a].RaiseDate
                  /\ events[b].RaiseDate = events[b].TerminatedDate

\* C11 witness: a batch is done in which an alarm was raised and later
\* terminated; it gave two events with their own, different, dates.
RaisedAndTerminatedApart ==
    /\ pc = "done"
    /\ \E a, b \in 1..Len(events) :
          /\ RaisedThenTerminated(a, b)
          /\ events[a].TerminatedDate # events[b].TerminatedDate
          /\ events[a].RaiseDate # None

\* a marker of level c stands at index k of line: /c/, " c/" or " c "
MarkerAt(line, k, c) ==
    /\ k + 2 <= Len(line)
    /\ Char(line, k + 1) = c
    /\ \/ Char(line, k) \in {"/", " "} /\ Char(line, k + 2) = "/"
       \/ Char(line, k) = " " /\ Char(line, k + 2) = " "

\* line holds a marker of level c
HasMarker(line, c) == \E k \in 1..Len(line) : MarkerAt(line, k, c)

\* the level the markers of line stand for: W before I before F, else absent
LevelByMarkers(line) ==
    IF HasMarker(line, "W") THEN Some("W")
    ELSE IF HasMarker(line, "I") THEN Some("I")
    ELSE IF HasMarker(line, "F") THEN Some("F")
    ELSE None

\* C12: the record of a line that the structured pattern does not match has
\* the level W if the line holds a W marker, else I if it holds an I marker,
\* else F if it holds an F marker, else none - W also when an I or F marker
\* stands before the W marker - and it has no ThreadID.
LevelByMarkerPriority ==
    \A k \in 1..Len(entries) :
        re_mcscript_full(entries[k].Raw) = None =>
            /\ entries[k].Level = LevelByMarkers(lines[k])
            /\ (HasMarker(lines[k], "W")
                   /\ (HasMarker(lines[k], "I") \/ HasMarker(lines[k], "F")))
               => entries[k].Level = Some("W")
            /\ entries[k].ThreadID = None

\* C12 witness: a free-form line with an I marker in front of a W marker has
\* been given the level W and no ThreadID.
WarningAfterInfoMarker ==
    \E k \in 1..Len(entries) :
        /\ re_mcscript_full(entries[k].Raw) = None
        /\ \E a, b \in 1..Len(lines[k]) :
              a < b /\ MarkerAt(lines[k], a, "I") /\ MarkerAt(lines[k], b, "W")
        /\ entries[k].Level = Some("W")
        /\ entries[k].ThreadID = None

====
